---- MODULE Spec2Model ----
(***************************************************************************)
(* Inventory transactions of kosinventory: the issue / return / edit /     *)
(* delete handlers of src/app.py and the component rows they reconcile.    *)
(* Every handler is one action; every Component.update / Transaction.update*)
(* call commits on its own (src/db.py get_cursor), so a handler that       *)
(* returns early keeps the writes it made before the return.               *)
(***************************************************************************)
EXTENDS Integers, FiniteSets, Sequences, TLC

\* ---------------------------------------------------------------- bounds
\* Largest quantity a request payload carries (payloads range over -1..MaxQty).
MaxQty == 2
\* Number of transaction rows the AUTO_INCREMENT key may hand out.
MaxTxId == 2
\* How far a stored quantity may drift outside its intended range.
Slack == 1
\* initial_quantity of the two stocked components.
SmallStock == 2
LargeStock == 11
\* Number of component rows the catalog may hold.
MaxComponents == 4
MaxRows == 2

\* ------------------------------------------------------ program constants
LowStockThreshold == 10
\* the last sequence number generate_component_uid tries
SequenceLimit == 999

\* -------------------------------------------------------------- the data
\* table labs: the three sample labs and one created through POST /api/labs
\* with a display code that holds no digit
Labs == {1, 2, 3, 4}
LabName == (1 :> "Robotics Lab A") @@ (2 :> "IoT Prototyping Zone") @@
           (3 :> "Automation Hub") @@ (4 :> "hub")
\* labs.lab_id, the display code, character by character
LabDisplayCode ==
  (1 :> <<"L", "A", "B", "-", "0", "0", "1">>) @@
  (2 :> <<"L", "A", "B", "-", "0", "0", "2">>) @@
  (3 :> <<"L", "A", "B", "-", "0", "0", "3">>) @@
  (4 :> <<"H", "U", "B">>)
\* labs.name, character by character
LabNameChars ==
  (1 :> <<"R", "o", "b", "o", "t", "i", "c", "s", " ", "L", "a", "b", " ", "A">>) @@
  (2 :> <<"I", "o", "T", " ", "P", "r", "o", "t", "o", "t", "y", "p", "i", "n",
          "g", " ", "Z", "o", "n", "e">>) @@
  (3 :> <<"A", "u", "t", "o", "m", "a", "t", "i", "o", "n", " ", "H", "u", "b">>) @@
  (4 :> <<"h", "u", "b">>)
\* the labs an admin's payload names: the stocked lab, a lab without the
\* component and no lab at all
LabNameInputs == {LabName[1], LabName[3], "Nowhere"}
Recipients == {"alice", "bob"}
QtyInputs == (0 - 1)..MaxQty
TxIds == 1..MaxTxId
NoLab == 0
NoRow == 0
NoDate == 0
NoQty == 0 - 1000
NoUid == ""

\* session of the caller: the admin, or a trainer bound to one lab
AdminSession == [role |-> "admin", lab_id |-> NoLab]
TrainerSessions == {[role |-> "trainer", lab_id |-> l] : l \in {1, 2}}
Sessions == {AdminSession} \cup TrainerSessions

VARIABLES
  components,   \* table components: id -> row
  txs,          \* table transactions: id -> row
  nextTxId,     \* AUTO_INCREMENT of table transactions
  now,          \* datetime.utcnow(), in seconds
  last,         \* the last request and the response it got
  groups,       \* table component_groups: id -> row
  requests      \* the Issue requests being served: worker -> its position

vars == <<components, txs, nextTxId, now, last, groups, requests>>

\* what a request served from start to end leaves alone
served == <<groups, requests>>

\* ------------------------------------------------------ pure helper code
\* the status expression every transaction handler stores with a quantity
StockStatus(q) == IF q >= LowStockThreshold THEN "available" ELSE "low_stock"

\* the status rule of the stock ledger: the expression above plus the
\* out_of_stock override that update_transaction and the import apply
LedgerStatus(q) == IF q = 0 THEN "out_of_stock" ELSE StockStatus(q)

\* the row Component.create inserts
NewComponent(uid, name, lab_id, initial_quantity, current_quantity, status) ==
  [uid |-> uid, name |-> name, lab |-> LabName[lab_id], lab_id |-> lab_id,
   initial_quantity |-> initial_quantity,
   current_quantity |-> current_quantity, status |-> status]

\* Lab.get_by_name
LabByName(lab) == {l \in Labs : LabName[l] = lab}

\* data['lab'] and data['lab_id'] after the role prologue of a handler
RequestLab(sess, lab) ==
  IF sess.role = "trainer" THEN LabName[sess.lab_id] ELSE lab

RequestLabId(sess, lab) ==
  IF sess.role = "trainer" THEN sess.lab_id
  ELSE IF LabByName(lab) = {} THEN NoLab
  ELSE CHOOSE l \in LabByName(lab) : TRUE

\* a trainer is refused every row that is not of the lab of the session
AccessDenied_Never(sess, row) == FALSE

AccessDenied(sess, row) ==
  sess.role = "trainer" /\ row.lab_id # sess.lab_id

\* SELECT * FROM components WHERE name = %s AND lab = %s
ComponentsByNameAndLab(name, lab) ==
  {c \in DOMAIN components :
     components[c].name = name /\ components[c].lab = lab}

\* SELECT * FROM components WHERE name = %s AND lab_id = %s
ComponentsByNameAndLabId(name, lab_id) ==
  {c \in DOMAIN components :
     components[c].name = name /\ components[c].lab_id = lab_id}

\* UPDATE <table> SET key = value, ... WHERE id = %s
UpdateRow(row, data) ==
  [f \in DOMAIN row |-> IF f \in DOMAIN data THEN data[f] ELSE row[f]]

\* the model keeps stored quantities within Slack of their intended range
StockInBounds(c, q) ==
  /\ q >= 0 - Slack
  /\ q <= components[c].initial_quantity + Slack

TxQtyInBounds(q) == q >= 0 - Slack /\ q <= MaxQty + Slack

Response(op, err, name, lab_id, who, q, comp, txn) ==
  [op |-> op, err |-> err, name |-> name, lab_id |-> lab_id, who |-> who,
   q |-> q, comp |-> comp, txn |-> txn]

\* a response of the role prologue, before the request is looked at
EarlyResponse(op, err) == Response(op, err, "", NoLab, "", NoQty, NoRow, NoRow)

Reject(resp) ==
  /\ last' = resp
  /\ UNCHANGED <<components, txs, nextTxId, now>>

\* --------------------------------------------- create_transaction: issue
\* the stock check with the comparison off by one
InsufficientStock_OffByOne(current_quantity, quantity_issued) ==
  current_quantity + 1 < quantity_issued

InsufficientStock(current_quantity, quantity_issued) ==
  current_quantity < quantity_issued

\* the row with pending_quantity left at the column default
IssuedTransaction_DefaultPending(name, lab_id, who, q, t) ==
  [component_name |-> name, lab_id |-> lab_id, issued_to |-> who,
   quantity_issued |-> q, quantity_returned |-> 0, pending_quantity |-> 0,
   status |-> "issued", issue_date |-> t, return_date |-> NoDate]

IssuedTransaction(name, lab_id, who, q, t) ==
  [component_name |-> name, lab_id |-> lab_id, issued_to |-> who,
   quantity_issued |-> q, quantity_returned |-> 0, pending_quantity |-> q,
   status |-> "issued", issue_date |-> t, return_date |-> NoDate]

IssueBranch(c, name, lab_id, who, q) ==
  LET cur == components[c].current_quantity
      new_quantity == cur - q
  IN
  IF InsufficientStock(cur, q)
  THEN Reject(Response("issue", "InsufficientStock", name, lab_id, who, q, c, NoRow))
  ELSE
    /\ nextTxId <= MaxTxId
    /\ StockInBounds(c, new_quantity)
    /\ components' = [components EXCEPT
                        ![c].current_quantity = new_quantity,
                        ![c].status = StockStatus(new_quantity)]
    /\ txs' = txs @@ (nextTxId :> IssuedTransaction(name, lab_id, who, q, now))
    /\ nextTxId' = nextTxId + 1
    /\ last' = Response("issue", "ok", name, lab_id, who, q, c, nextTxId)
    \* the next request is handled a second later
    /\ now' = now + 1

\* -------------------------------------------- create_transaction: return
\* the query without the issued_to condition
OpenTransactions_AnyRecipient(name, lab_id, who) ==
  {i \in DOMAIN txs :
     /\ txs[i].component_name = name
     /\ txs[i].lab_id = lab_id
     /\ txs[i].pending_quantity > 0}

\* SELECT ... WHERE component_name, lab_id, issued_to match AND pending_quantity > 0
OpenTransactions(name, lab_id, who) ==
  {i \in DOMAIN txs :
     /\ txs[i].component_name = name
     /\ txs[i].lab_id = lab_id
     /\ txs[i].issued_to = who
     /\ txs[i].pending_quantity > 0}

\* ORDER BY issue_date DESC
OldestOf_Newest(S) ==
  {i \in S : \A j \in S : txs[i].issue_date >= txs[j].issue_date}

\* ORDER BY issue_date ASC, row [0]: rows of one second come in any order
OldestOf(S) ==
  {i \in S : \A j \in S : txs[i].issue_date <= txs[j].issue_date}

\* the over-return check with the comparison off by one
OverReturn_OffByOne(quantity_returned, pending_quantity) ==
  quantity_returned > pending_quantity + 1

OverReturn(quantity_returned, pending_quantity) ==
  quantity_returned > pending_quantity

\* the status of a return that never closes the transaction
ReturnStatus_NeverReturned(new_pending_quantity) ==
  IF new_pending_quantity < 0 THEN "returned" ELSE "partially_returned"

ReturnStatus(new_pending_quantity) ==
  IF new_pending_quantity = 0 THEN "returned" ELSE "partially_returned"

ExceedsInitialStock(new_component_quantity, initial_quantity) ==
  new_component_quantity > initial_quantity

ReturnBranch(c, name, lab_id, who, q) ==
  LET issued_transactions == OpenTransactions(name, lab_id, who) IN
  IF issued_transactions = {}
  THEN Reject(Response("return", "NoActiveIssue", name, lab_id, who, q, c, NoRow))
  ELSE \E i \in OldestOf(issued_transactions) :
    LET tx == txs[i]
        new_pending_quantity == tx.pending_quantity - q
        new_quantity_returned == tx.quantity_returned + q
        new_status == ReturnStatus(new_pending_quantity)
        new_component_quantity == components[c].current_quantity + q
    IN
    IF OverReturn(q, tx.pending_quantity)
    THEN Reject(Response("return", "OverReturn", name, lab_id, who, q, c, i))
    ELSE
      /\ TxQtyInBounds(new_pending_quantity)
      /\ TxQtyInBounds(new_quantity_returned)
      \* Transaction.update commits before the component is looked at
      /\ txs' = [txs EXCEPT
                   ![i].quantity_returned = new_quantity_returned,
                   ![i].pending_quantity = new_pending_quantity,
                   ![i].status = new_status,
                   ![i].return_date =
                      IF new_status = "returned" THEN now ELSE @]
      /\ UNCHANGED <<nextTxId, now>>
      /\ IF ExceedsInitialStock(new_component_quantity,
                                components[c].initial_quantity)
         THEN /\ UNCHANGED components
              /\ last' = Response("return", "ExceedsInitialStock",
                                  name, lab_id, who, q, c, i)
         ELSE /\ StockInBounds(c, new_component_quantity)
              /\ components' = [components EXCEPT
                     ![c].current_quantity = new_component_quantity,
                     ![c].status = StockStatus(new_component_quantity)]
              /\ last' = Response("return", "ok", name, lab_id, who, q, c, i)

\* ------------------------------------------- POST /api/transactions
CreateTransaction(sess, type, lab, name, who, q) ==
  LET data_lab == RequestLab(sess, lab)
      data_lab_id == RequestLabId(sess, lab)
      found == ComponentsByNameAndLab(name, data_lab)
  IN
  IF data_lab_id = NoLab
  THEN Reject(EarlyResponse(type, "LabNotFound"))
  ELSE IF found = {}
  THEN Reject(EarlyResponse(type, "ComponentNotFound"))
  ELSE \E c \in found :
    IF AccessDenied(sess, components[c])
    THEN Reject(EarlyResponse(type, "ComponentNotFound"))
    ELSE IF type = "issue"
    THEN IssueBranch(c, name, data_lab_id, who, q)
    ELSE ReturnBranch(c, name, data_lab_id, who, q)

\* ------------------------------------- PUT /api/transactions/<id>
NegativeQuantity(new_returned) == new_returned < 0

ExceedsIssued(new_returned, quantity_issued) == new_returned > quantity_issued

\* the negative-stock check with the comparison off by one
NegativeStock_OffByOne(new_component_quantity) == new_component_quantity < 0 - 1

NegativeStock(new_component_quantity) == new_component_quantity < 0

\* the new value applied to the stock instead of the difference
ReturnedDelta_NewValue(new_returned, old_returned) == new_returned

ReturnedDelta(new_returned, old_returned) == new_returned - old_returned

\* the status without the partial case
EditStatus_NoPartial(new_returned, quantity_issued) ==
  IF new_returned = 0 THEN "issued" ELSE "returned"

EditStatus(new_returned, quantity_issued) ==
  IF new_returned = 0 THEN "issued"
  ELSE IF new_returned = quantity_issued THEN "returned"
  ELSE "partially_returned"

\* the keys the handler adds to the payload before Transaction.update
EditedFields(original, new_returned) ==
  LET status == EditStatus(new_returned, original.quantity_issued) IN
  ("pending_quantity" :> (original.quantity_issued - new_returned)) @@
  ("status" :> status) @@
  (IF status = "returned" /\ original.return_date = NoDate
   THEN ("return_date" :> now) ELSE <<>>)

\* cursor.rowcount of an UPDATE: the rows whose stored values changed
RowChanged(old, new) == old # new

UpdateTransaction(sess, id, data) ==
  IF id \notin DOMAIN txs
  THEN Reject(EarlyResponse("edit", "TransactionNotFound"))
  ELSE IF AccessDenied(sess, txs[id])
  THEN Reject(EarlyResponse("edit", "TransactionNotFound"))
  ELSE
  LET original == txs[id]
      found == ComponentsByNameAndLabId(original.component_name, original.lab_id)
      has_returned == "quantity_returned" \in DOMAIN data
      new_returned == IF has_returned THEN data["quantity_returned"] ELSE NoQty
      Resp(err, c) == Response("edit", err, original.component_name,
                               original.lab_id, original.issued_to,
                               new_returned, c, id)
  IN
  IF found = {}
  THEN Reject(EarlyResponse("edit", "ComponentNotFound"))
  ELSE \E c \in found :
    LET returned_delta == ReturnedDelta(new_returned, original.quantity_returned)
        new_component_quantity == components[c].current_quantity + returned_delta
        new_row == UpdateRow(original,
                     IF has_returned
                     THEN EditedFields(original, new_returned) @@ data
                     ELSE data)
    IN
    IF ~has_returned
    THEN IF DOMAIN data = {}
         THEN \* UPDATE transactions SET  WHERE id = ...: the statement fails
              Reject(Resp("ServerError", c))
         ELSE /\ \A f \in DOMAIN data : TxQtyInBounds(data[f])
              /\ txs' = [txs EXCEPT ![id] = new_row]
              /\ last' = Resp(IF RowChanged(original, new_row)
                              THEN "ok" ELSE "NotFoundOrNoChange", c)
              /\ UNCHANGED <<components, nextTxId, now>>
    ELSE IF NegativeQuantity(new_returned)
    THEN Reject(Resp("NegativeQuantity", c))
    ELSE IF ExceedsIssued(new_returned, original.quantity_issued)
    THEN Reject(Resp("ExceedsIssued", c))
    ELSE IF returned_delta # 0 /\
            ExceedsInitialStock(new_component_quantity,
                                components[c].initial_quantity)
    THEN Reject(Resp("ExceedsInitialStock", c))
    ELSE IF returned_delta # 0 /\ NegativeStock(new_component_quantity)
    THEN Reject(Resp("NegativeStock", c))
    ELSE
      /\ \A f \in DOMAIN data : TxQtyInBounds(data[f])
      /\ components' =
           IF returned_delta # 0
           THEN [components EXCEPT
                   ![c].current_quantity = new_component_quantity,
                   ![c].status = LedgerStatus(new_component_quantity)]
           ELSE components
      /\ txs' = [txs EXCEPT ![id] = new_row]
      /\ last' = Resp(IF RowChanged(original, new_row)
                      THEN "ok" ELSE "NotFoundOrNoChange", c)
      /\ UNCHANGED <<nextTxId, now>>

\* ---------------------------------- DELETE /api/transactions/<id>
RemoveRow(table, id) == [i \in DOMAIN table \ {id} |-> table[i]]

\* the quantity issued given back instead of the quantity still pending
RestoredQuantity_Issued(component, transaction) ==
  component.current_quantity + transaction.quantity_issued

RestoredQuantity(component, transaction) ==
  component.current_quantity + transaction.pending_quantity

DeleteTransaction(sess, id) ==
  IF id \notin DOMAIN txs
  THEN Reject(EarlyResponse("delete", "TransactionNotFound"))
  ELSE IF AccessDenied(sess, txs[id])
  THEN Reject(EarlyResponse("delete", "TransactionNotFound"))
  ELSE
  LET transaction == txs[id]
      found == ComponentsByNameAndLabId(transaction.component_name,
                                        transaction.lab_id)
      Resp(c) == Response("delete", "ok", transaction.component_name,
                          transaction.lab_id, transaction.issued_to,
                          transaction.pending_quantity, c, id)
  IN
  /\ txs' = RemoveRow(txs, id)
  /\ UNCHANGED <<nextTxId, now>>
  /\ IF transaction.pending_quantity > 0 /\ found # {}
     THEN \E c \in found :
            LET new_quantity == RestoredQuantity(components[c], transaction)
            IN
            /\ StockInBounds(c, new_quantity)
            /\ components' = [components EXCEPT
                                ![c].current_quantity = new_quantity,
                                ![c].status = StockStatus(new_quantity)]
            /\ last' = Resp(c)
     ELSE /\ UNCHANGED components
          /\ last' = Resp(NoRow)

\* ------------------------------------- PUT /api/components/<id>
UpdateComponent(sess, id, data) ==
  IF id \notin DOMAIN components
  THEN Reject(EarlyResponse("update_component", "ComponentNotFound"))
  ELSE IF AccessDenied(sess, components[id])
  THEN Reject(EarlyResponse("update_component", "ComponentNotFound"))
  ELSE
  LET stored == IF "current_quantity" \in DOMAIN data
                THEN ("status" :> StockStatus(data["current_quantity"])) @@ data
                ELSE data
      new_row == UpdateRow(components[id], stored)
      Resp(err) == Response("update_component", err, components[id].name,
                            components[id].lab_id, "",
                            IF "current_quantity" \in DOMAIN data
                            THEN data["current_quantity"] ELSE NoQty,
                            id, NoRow)
  IN
  IF DOMAIN data = {}
  THEN Reject(Resp("ServerError"))
  ELSE
    /\ \A f \in DOMAIN data : StockInBounds(id, data[f])
    /\ components' = [components EXCEPT ![id] = new_row]
    /\ last' = Resp(IF RowChanged(components[id], new_row)
                    THEN "ok" ELSE "NotFoundOrNoChange")
    /\ UNCHANGED <<txs, nextTxId, now>>

\* ------------------------------------------- generate_component_uid
DigitChars == {"0", "1", "2", "3", "4", "5", "6", "7", "8", "9"}
LowerChars == <<"a", "b", "c", "d", "e", "f", "g", "h", "i", "j", "k", "l", "m",
                "n", "o", "p", "q", "r", "s", "t", "u", "v", "w", "x", "y", "z">>
UpperChars == <<"A", "B", "C", "D", "E", "F", "G", "H", "I", "J", "K", "L", "M",
                "N", "O", "P", "Q", "R", "S", "T", "U", "V", "W", "X", "Y", "Z">>

\* ''.join(chars)
RECURSIVE Join(_)
Join(chars) ==
  IF chars = <<>> THEN "" ELSE Head(chars) \o Join(Tail(chars))

\* str.upper(), one character
Upper(ch) ==
  IF \E k \in DOMAIN LowerChars : LowerChars[k] = ch
  THEN UpperChars[CHOOSE k \in DOMAIN LowerChars : LowerChars[k] = ch]
  ELSE ch

RECURSIVE DropUntilDigit(_)
DropUntilDigit(chars) ==
  IF chars = <<>> \/ Head(chars) \in DigitChars THEN chars
  ELSE DropUntilDigit(Tail(chars))

RECURSIVE TakeDigits(_)
TakeDigits(chars) ==
  IF chars = <<>> \/ Head(chars) \notin DigitChars THEN <<>>
  ELSE <<Head(chars)>> \o TakeDigits(Tail(chars))

\* re.search(r'(\d+)', ...): the first run of digits, <<>> when there is none
FirstDigitRun(chars) == TakeDigits(DropUntilDigit(chars))

\* str.lstrip('0')
RECURSIVE LStripZeros(_)
LStripZeros(chars) ==
  IF chars # <<>> /\ Head(chars) = "0" THEN LStripZeros(Tail(chars)) ELSE chars

\* lab_code: L<number of the display code>, or the first two letters of the
\* lab name in upper case
LabCode(lab_id) ==
  LET lab_number_match == FirstDigitRun(LabDisplayCode[lab_id])
      stripped == LStripZeros(lab_number_match)
      name == LabNameChars[lab_id]
      first_two == SubSeq(name, 1, IF Len(name) < 2 THEN Len(name) ELSE 2)
  IN IF lab_number_match # <<>>
     THEN "L" \o (IF stripped = <<>> THEN "1" ELSE Join(stripped))
     ELSE Join([k \in DOMAIN first_two |-> Upper(first_two[k])])

\* f"{sequence_number:03d}"
ZeroPadded3(sequence_number) ==
  IF sequence_number < 10 THEN "00" \o ToString(sequence_number)
  ELSE IF sequence_number < 100 THEN "0" \o ToString(sequence_number)
  ELSE ToString(sequence_number)

\* f"COM{lab_code}-{sequence_number:03d}"
FormatUid(lab_code, sequence_number) ==
  "COM" \o lab_code \o "-" \o ZeroPadded3(sequence_number)

\* the uids of the rows of one lab only
ExistingUids_SameLabOnly(existing_components) ==
  {existing_components[c].uid :
     c \in {d \in DOMAIN existing_components :
              /\ existing_components[d].uid # NoUid
              /\ existing_components[d].lab_id = 1}}

\* existing_uids: the uid of every row that has one
ExistingUids(existing_components) ==
  {existing_components[c].uid :
     c \in {d \in DOMAIN existing_components :
              existing_components[d].uid # NoUid}}

\* the membership test left out
UidInUse_Never(uid, existing_uids) == FALSE

UidInUse(uid, existing_uids) == uid \in existing_uids

\* the while loop over sequence_number, then the timestamp fallback
RECURSIVE NextFreeUid(_, _, _)
NextFreeUid(lab_code, existing_uids, sequence_number) ==
  LET uid == FormatUid(lab_code, sequence_number) IN
  IF ~UidInUse(uid, existing_uids) THEN uid
  ELSE IF sequence_number + 1 > SequenceLimit
  THEN "COM" \o lab_code \o "-" \o ToString(now)
  ELSE NextFreeUid(lab_code, existing_uids, sequence_number + 1)

generate_component_uid(lab_id, existing_components) ==
  IF lab_id \notin Labs THEN NoUid
  ELSE NextFreeUid(LabCode(lab_id), ExistingUids(existing_components), 1)

\* a call of the generator whose result is not persisted; the response says
\* whether the call before it was the same call on the same rows
GenerateUid(lab_id) ==
  LET uid == generate_component_uid(lab_id, components)
      repeated == last.op = "generate_uid" /\ last.lab_id = lab_id
  IN
  /\ last' = Response("generate_uid", "ok", "", lab_id, "", NoQty, NoRow, NoRow)
               @@ ("uid" :> uid) @@ ("repeated" :> repeated)
  /\ UNCHANGED <<components, txs, nextTxId, now>>

\* ---------------------------------------------- POST /api/components
\* AUTO_INCREMENT of table components (no row is deleted here)
NextComponentId == Cardinality(DOMAIN components) + 1

CreateComponent(sess, lab, name, initial_quantity, current_quantity) ==
  LET data_lab_id == RequestLabId(sess, lab)
      uid == generate_component_uid(data_lab_id, components)
      component_id == NextComponentId
  IN
  IF data_lab_id = NoLab
  THEN Reject(EarlyResponse("create_component", "LabNotFound"))
  ELSE IF uid = NoUid
  THEN Reject(EarlyResponse("create_component", "ServerError"))
  ELSE
    /\ component_id <= MaxComponents
    /\ components' = components @@
         (component_id :>
            NewComponent(uid, name, data_lab_id, initial_quantity,
                         current_quantity, StockStatus(current_quantity)))
    /\ last' = Response("create_component", "ok", name, data_lab_id, "",
                        current_quantity, component_id, NoRow)
    /\ UNCHANGED <<txs, nextTxId, now>>

\* ------------------------------------ a persistence call that raises
\* Every Component.update / Transaction.create / update / delete opens its own
\* connection and commits when its block ends; a call that raises rolls back
\* its own statement only and the handler, which catches nothing, answers 500.
\* failing_write is the position of the raising call among the handler's
\* writes; the writes before it stay committed.
IssueWriteFails(c, name, lab_id, who, q, failing_write) ==
  LET new_quantity == components[c].current_quantity - q IN
  /\ ~InsufficientStock(components[c].current_quantity, q)
  /\ StockInBounds(c, new_quantity)
  /\ last' = Response("issue", "PersistenceFailure", name, lab_id, who, q,
                      c, NoRow)
  /\ components' =
       IF failing_write = 1 THEN components     \* Component.update raises
       ELSE [components EXCEPT                  \* Transaction.create raises
               ![c].current_quantity = new_quantity,
               ![c].status = StockStatus(new_quantity)]
  /\ UNCHANGED <<txs, nextTxId, now>>

ReturnWriteFails(c, name, lab_id, who, q, failing_write) ==
  LET issued_transactions == OpenTransactions(name, lab_id, who) IN
  /\ issued_transactions # {}
  /\ \E i \in OldestOf(issued_transactions) :
       LET tx == txs[i]
           new_pending_quantity == tx.pending_quantity - q
           new_quantity_returned == tx.quantity_returned + q
           new_status == ReturnStatus(new_pending_quantity)
       IN
       /\ ~OverReturn(q, tx.pending_quantity)
       /\ TxQtyInBounds(new_pending_quantity)
       /\ TxQtyInBounds(new_quantity_returned)
       /\ last' = Response("return", "PersistenceFailure", name, lab_id, who,
                           q, c, i)
       /\ IF failing_write = 1
          THEN UNCHANGED txs                    \* Transaction.update raises
          ELSE                                  \* Component.update raises
            /\ ~ExceedsInitialStock(components[c].current_quantity + q,
                                    components[c].initial_quantity)
            /\ txs' = [txs EXCEPT
                         ![i].quantity_returned = new_quantity_returned,
                         ![i].pending_quantity = new_pending_quantity,
                         ![i].status = new_status,
                         ![i].return_date =
                            IF new_status = "returned" THEN now ELSE @]
  /\ UNCHANGED <<components, nextTxId, now>>

CreateTransactionFailing(sess, type, lab, name, who, q, failing_write) ==
  LET data_lab == RequestLab(sess, lab)
      data_lab_id == RequestLabId(sess, lab)
      found == ComponentsByNameAndLab(name, data_lab)
  IN
  /\ data_lab_id # NoLab
  /\ \E c \in found :
       /\ ~AccessDenied(sess, components[c])
       /\ IF type = "issue"
          THEN IssueWriteFails(c, name, data_lab_id, who, q, failing_write)
          ELSE ReturnWriteFails(c, name, data_lab_id, who, q, failing_write)

UpdateTransactionFailing(sess, id, data, failing_write) ==
  /\ id \in DOMAIN txs
  /\ ~AccessDenied(sess, txs[id])
  /\ DOMAIN data # {}
  /\ LET original == txs[id]
         found == ComponentsByNameAndLabId(original.component_name,
                                           original.lab_id)
         has_returned == "quantity_returned" \in DOMAIN data
         new_returned == IF has_returned THEN data["quantity_returned"]
                         ELSE NoQty
     IN \E c \in found :
       LET returned_delta ==
             IF has_returned
             THEN ReturnedDelta(new_returned, original.quantity_returned)
             ELSE 0
           new_component_quantity ==
             components[c].current_quantity + returned_delta
       IN
       /\ has_returned =>
            /\ ~NegativeQuantity(new_returned)
            /\ ~ExceedsIssued(new_returned, original.quantity_issued)
       /\ returned_delta # 0 =>
            /\ ~ExceedsInitialStock(new_component_quantity,
                                    components[c].initial_quantity)
            /\ ~NegativeStock(new_component_quantity)
       /\ last' = Response("edit", "PersistenceFailure",
                           original.component_name, original.lab_id,
                           original.issued_to, new_returned, c, id)
       /\ IF failing_write = 1
          THEN /\ returned_delta # 0            \* Component.update raises
               /\ UNCHANGED components
          ELSE components' =                    \* Transaction.update raises
                 IF returned_delta # 0
                 THEN [components EXCEPT
                         ![c].current_quantity = new_component_quantity,
                         ![c].status = LedgerStatus(new_component_quantity)]
                 ELSE components
  /\ UNCHANGED <<txs, nextTxId, now>>

DeleteTransactionFailing(sess, id, failing_write) ==
  /\ id \in DOMAIN txs
  /\ ~AccessDenied(sess, txs[id])
  /\ LET transaction == txs[id]
         found == ComponentsByNameAndLabId(transaction.component_name,
                                           transaction.lab_id)
         restores == transaction.pending_quantity > 0 /\ found # {}
     IN
     IF restores
     THEN \E c \in found :
            LET new_quantity == RestoredQuantity(components[c], transaction)
            IN
            /\ StockInBounds(c, new_quantity)
            /\ last' = Response("delete", "PersistenceFailure",
                                transaction.component_name,
                                transaction.lab_id, transaction.issued_to,
                                transaction.pending_quantity, c, id)
            /\ components' =
                 IF failing_write = 1 THEN components \* Component.update raises
                 ELSE [components EXCEPT              \* Transaction.delete raises
                         ![c].current_quantity = new_quantity,
                         ![c].status = StockStatus(new_quantity)]
     ELSE /\ failing_write = 1                        \* Transaction.delete raises
          /\ last' = Response("delete", "PersistenceFailure",
                              transaction.component_name, transaction.lab_id,
                              transaction.issued_to,
                              transaction.pending_quantity, NoRow, id)
          /\ UNCHANGED components
  /\ UNCHANGED <<txs, nextTxId, now>>

\* ------------------------------------------- POST /import-components
\* str.lower(), one character
Lower(ch) ==
  IF \E k \in DOMAIN UpperChars : UpperChars[k] = ch
  THEN LowerChars[CHOOSE k \in DOMAIN UpperChars : UpperChars[k] = ch]
  ELSE ch

IsLetter(ch) ==
  \E k \in DOMAIN LowerChars : LowerChars[k] = ch \/ UpperChars[k] = ch

\* str.strip(): the blanks at both ends dropped
RECURSIVE LStrip(_)
LStrip(chars) ==
  IF chars # <<>> /\ Head(chars) = " " THEN LStrip(Tail(chars)) ELSE chars

RECURSIVE RStrip(_)
RStrip(chars) ==
  IF chars # <<>> /\ chars[Len(chars)] = " "
  THEN RStrip(SubSeq(chars, 1, Len(chars) - 1))
  ELSE chars

Strip(chars) == RStrip(LStrip(chars))

\* str.title(): a letter after a non-letter in upper case, every other
\* letter in lower case
Title(chars) ==
  [k \in 1..Len(chars) |->
     IF k = 1 \/ ~IsLetter(chars[k - 1]) THEN Upper(chars[k])
     ELSE Lower(chars[k])]

\* the comparison key without the conversion to lower case
normalize_string_KeepCase(chars) == Strip(chars)

\* normalize_string: strip, then lower case
normalize_string(chars) ==
  LET stripped == Strip(chars) IN
  [k \in 1..Len(stripped) |-> Lower(stripped[k])]

\* normalize_string(existing_lab['name']) of every lab
NormalizedLabName == [l \in Labs |-> normalize_string(LabNameChars[l])]

\* a row of table component_groups
NewGroup(id, name, lab_id) ==
  [id |-> id, name |-> name, lab_id |-> lab_id, lab_name |-> LabName[lab_id]]

\* the loop of find_or_create_group over existing_groups
MatchingGroups(group_name, lab_id, existing_groups) ==
  {k \in DOMAIN existing_groups :
     /\ normalize_string(existing_groups[k].name) = normalize_string(group_name)
     /\ existing_groups[k].lab_id = lab_id}

\* a cell left empty in the file (NaN)
Blank == ""
BlankChars == <<>>

\* one entry of the errors list: the 1-based row number and the message
ImportMessage(index, text) == [row |-> index, text |-> text]

\* what the loop did with one row: its outcome, the uid it resolved and
\* whether it generated it, the group it resolved and whether it created it
RowLog(outcome, uid, generated, group_id, created) ==
  [outcome |-> outcome, uid |-> uid, generated |-> generated,
   group_id |-> group_id, created |-> created]

\* the UNIQUE index on components.uid: the uid is on a row other than id
UniqueUidViolated(rows, id, uid) ==
  \E d \in DOMAIN rows \ {id} : rows[d].uid = uid

\* SELECT id FROM components WHERE name = %s AND lab_id = %s
ExistingComponent(rows, name, lab_id) ==
  {c \in DOMAIN rows : rows[c].name = name /\ rows[c].lab_id = lab_id}

\* the body of the loop from the uid on, for a row whose lab is resolved
ImportResolvedRow(st, row, index, lab) ==
  LET has_uid == row.uid # NoUid
      uid == IF has_uid THEN row.uid
             ELSE generate_component_uid(lab, st.existing_components)
      group_name == Strip(row.group)
      has_group == group_name # BlankChars
      matching == MatchingGroups(group_name, lab, st.existing_groups)
      created == has_group /\ matching = {}
      new_group_id == Cardinality(DOMAIN st.groups) + 1
      group_id ==
        IF ~has_group THEN NoRow
        ELSE IF created THEN new_group_id
        ELSE st.existing_groups[CHOOSE k \in matching :
                                  \A m \in matching : k <= m].id
      stored_groups ==
        IF created
        THEN st.groups @@ (new_group_id :> NewGroup(new_group_id,
                                                    Title(group_name), lab))
        ELSE st.groups
      grouped ==
        [st EXCEPT !.groups = stored_groups,
                   !.existing_groups =
                     IF has_group THEN Append(@, stored_groups[group_id])
                     ELSE @]
      status == LedgerStatus(row.current_quantity)
      found == ExistingComponent(st.components, row.name, lab)
      Log(outcome) == RowLog(outcome, uid, ~has_uid, group_id, created)
  IN
  IF has_uid /\ \E c \in DOMAIN st.components : st.components[c].uid = uid
  THEN [st EXCEPT !.errors = Append(@, ImportMessage(index, "UidExists")),
                  !.rows = Append(@, RowLog("rejected", uid, FALSE, NoRow,
                                            FALSE))]
  ELSE IF found # {}
  THEN
    LET c == CHOOSE d \in found : \A e \in found : d <= e
        update_data == ("initial_quantity" :> row.initial_quantity) @@
                       ("current_quantity" :> row.current_quantity) @@
                       ("status" :> status) @@
                       (IF uid # NoUid THEN ("uid" :> uid) ELSE <<>>)
        component_data == UpdateRow(st.components[c], update_data)
    IN
    IF uid # NoUid /\ UniqueUidViolated(st.components, c, uid)
    THEN [grouped EXCEPT
            !.errors = Append(@, ImportMessage(index, "Exception")),
            !.rows = Append(@, Log("exception"))]
    ELSE [grouped EXCEPT
            !.components = [@ EXCEPT ![c] = component_data],
            !.imported_count = @ + 1,
            !.errors = Append(@, ImportMessage(index, "Updated")),
            !.rows = Append(@, Log("updated"))]
  ELSE
    LET component_id == Cardinality(DOMAIN st.components) + 1
        component_data == NewComponent(uid, row.name, lab,
                                       row.initial_quantity,
                                       row.current_quantity, status)
    IN
    IF UniqueUidViolated(st.components, NoRow, uid)
    THEN [grouped EXCEPT
            !.errors = Append(@, ImportMessage(index, "Exception")),
            !.rows = Append(@, Log("exception"))]
    ELSE [grouped EXCEPT
            !.components = @ @@ (component_id :> component_data),
            !.existing_components = Append(@, component_data),
            !.imported_count = @ + 1,
            !.rows = Append(@, Log("inserted"))]

\* the body of the loop for the row at index (1-based), up to the lab
ImportRow(st, sess, row, index) ==
  LET Rejected(text) ==
        [st EXCEPT !.errors = Append(@, ImportMessage(index, text)),
                   !.rows = Append(@, RowLog("rejected", NoUid, FALSE, NoRow,
                                             FALSE))]
      lab_name == Strip(row.lab)
      normalized_name == normalize_string(lab_name)
      labs == {l \in Labs : NormalizedLabName[l] = normalized_name}
  IN
  IF row.name = Blank \/ row.category = Blank \/ row.lab = BlankChars
  THEN Rejected("MissingRequiredFields")
  ELSE IF row.initial_quantity = NoQty \/ row.current_quantity = NoQty
  THEN Rejected("InvalidQuantity")
  ELSE IF row.initial_quantity < 0 \/ row.current_quantity < 0
  THEN Rejected("NegativeQuantity")
  ELSE IF labs = {}
  THEN Rejected("LabNotFound")
  ELSE
    LET lab == CHOOSE l \in labs : \A m \in labs : l <= m IN
    IF sess.role = "trainer" /\ lab # sess.lab_id
    THEN Rejected("ForeignLab")
    ELSE ImportResolvedRow(st, row, index, lab)

\* for index, row in df.iterrows()
RECURSIVE ImportRows(_, _, _, _)
ImportRows(st, sess, batch, index) ==
  IF index > Len(batch) THEN st
  ELSE ImportRows(ImportRow(st, sess, batch[index], index), sess, batch,
                  index + 1)

ImportComponents(sess, batch) ==
  LET start == [components |-> components,
                groups |-> groups,
                existing_components |->
                  [k \in 1..Cardinality(DOMAIN components) |-> components[k]],
                existing_groups |->
                  [k \in 1..Cardinality(DOMAIN groups) |-> groups[k]],
                imported_count |-> 0,
                errors |-> <<>>,
                rows |-> <<>>]
      st == ImportRows(start, sess, batch, 1)
  IN
  /\ Cardinality(DOMAIN st.components) <= MaxComponents
  /\ components' = st.components
  /\ groups' = st.groups
  /\ last' = Response("import", "ok", "", sess.lab_id, "", NoQty, NoRow, NoRow)
               @@ ("imported_count" :> st.imported_count)
               @@ ("errors" :> st.errors)
               @@ ("total_rows" :> Len(batch))
               @@ ("batch" :> batch)
               @@ ("rows" :> st.rows)
  /\ UNCHANGED <<txs, nextTxId, now, requests>>

\* ------------------- POST /api/transactions served by several threads
\* the threads of the server
Workers == {1, 2}

\* what a thread serving an Issue request holds between two statements
IssueRequest(pc, c, name, lab_id, who, q) ==
  [pc |-> pc, comp |-> c, component |-> components[c], name |-> name,
   lab_id |-> lab_id, who |-> who, q |-> q]

Finished(w) == [v \in DOMAIN requests \ {w} |-> requests[v]]

\* the prologue and the SELECT of the component: the thread keeps the row
IssueSelect(w, sess, lab, name, who, q) ==
  LET data_lab == RequestLab(sess, lab)
      data_lab_id == RequestLabId(sess, lab)
      found == ComponentsByNameAndLab(name, data_lab)
  IN
  /\ w \notin DOMAIN requests
  /\ nextTxId + Cardinality(DOMAIN requests) <= MaxTxId
  /\ IF data_lab_id = NoLab
     THEN Reject(EarlyResponse("issue", "LabNotFound")) /\ UNCHANGED requests
     ELSE IF found = {}
     THEN Reject(EarlyResponse("issue", "ComponentNotFound"))
          /\ UNCHANGED requests
     ELSE \E c \in found :
       IF AccessDenied(sess, components[c])
       THEN Reject(EarlyResponse("issue", "ComponentNotFound"))
            /\ UNCHANGED requests
       ELSE /\ requests' = requests @@
                 (w :> IssueRequest("update", c, name, data_lab_id, who, q))
            /\ UNCHANGED <<components, txs, nextTxId, now, last>>
  /\ UNCHANGED groups

\* the stock check on the row the thread read, then Component.update
IssueUpdate(w) ==
  /\ w \in DOMAIN requests
  /\ requests[w].pc = "update"
  /\ LET req == requests[w]
         cur == req.component.current_quantity
         new_quantity == cur - req.q
     IN
     IF InsufficientStock(cur, req.q)
     THEN /\ Reject(Response("issue", "InsufficientStock", req.name,
                             req.lab_id, req.who, req.q, req.comp, NoRow))
          /\ requests' = Finished(w)
     ELSE /\ StockInBounds(req.comp, new_quantity)
          /\ components' = [components EXCEPT
                              ![req.comp].current_quantity = new_quantity,
                              ![req.comp].status = StockStatus(new_quantity)]
          /\ requests' = [requests EXCEPT ![w].pc = "insert"]
          /\ UNCHANGED <<txs, nextTxId, now, last>>
  /\ UNCHANGED groups

\* Transaction.create and the response
IssueInsert(w) ==
  /\ w \in DOMAIN requests
  /\ requests[w].pc = "insert"
  /\ LET req == requests[w] IN
     /\ txs' = txs @@ (nextTxId :> IssuedTransaction(req.name, req.lab_id,
                                                     req.who, req.q, now))
     /\ last' = Response("issue", "ok", req.name, req.lab_id, req.who, req.q,
                         req.comp, nextTxId)
  /\ nextTxId' = nextTxId + 1
  /\ now' = now + 1
  /\ requests' = Finished(w)
  /\ UNCHANGED <<components, groups>>

\* ------------------------------------------------------------ the system
Init ==
  /\ \E stock \in {SmallStock, LargeStock} :
       components =
         (1 :> NewComponent("COML1-001", "Pi", 1, stock, stock,
                            LedgerStatus(stock))) @@
         (2 :> NewComponent("COML2-001", "Pi", 2, SmallStock, SmallStock,
                            LedgerStatus(SmallStock)))
  /\ txs = <<>>
  /\ nextTxId = 1
  /\ now = 1
  /\ last = EarlyResponse("none", "ok")
  /\ groups = <<>>
  /\ requests = <<>>

\* JSON payloads: any subset of the fields, each with a quantity
Payloads(fields, values) == UNION {[S -> values] : S \in SUBSET fields}

\* the caller and the lab its request names: a trainer's lab comes from the
\* session, whatever the payload says
Callers(sessions) ==
  {<<AdminSession, lab>> : lab \in LabNameInputs} \cup
  {<<s, LabName[s.lab_id]>> : s \in sessions \ {AdminSession}}

TransactionRequests(sessions, recipients, quantities) ==
  \E caller \in Callers(sessions), type \in {"issue", "return"},
     who \in recipients, q \in quantities :
    /\ CreateTransaction(caller[1], type, caller[2], "Pi", who, q)
    /\ UNCHANGED served

EditRequests(sessions, fields, values) ==
  \E sess \in sessions, id \in TxIds, data \in Payloads(fields, values) :
    /\ UpdateTransaction(sess, id, data)
    /\ UNCHANGED served

DeleteRequests(sessions) ==
  \E sess \in sessions, id \in TxIds :
    /\ DeleteTransaction(sess, id)
    /\ UNCHANGED served

ComponentRequests(sessions) ==
  \E sess \in sessions, id \in {1, 2},
     data \in Payloads({"current_quantity"}, QtyInputs) :
    /\ UpdateComponent(sess, id, data)
    /\ UNCHANGED served

\* the four transaction operations, an Edit carrying quantity_returned
Next ==
  \/ TransactionRequests({AdminSession, [role |-> "trainer", lab_id |-> 1]},
                         Recipients, QtyInputs)
  \/ EditRequests(Sessions, {"quantity_returned"}, QtyInputs)
  \/ DeleteRequests(Sessions)

Spec == Init /\ [][Next]_vars

\* the four transaction operations on quantities >= 0, an Edit zeroing any
\* of the quantity fields
NextRaw ==
  \/ TransactionRequests({AdminSession}, {"alice"}, 0..MaxQty)
  \/ EditRequests({AdminSession},
                  {"quantity_returned", "pending_quantity", "quantity_issued"},
                  {0})
  \/ DeleteRequests({AdminSession})

SpecRaw == Init /\ [][NextRaw]_vars

\* issues and returns of quantities >= 0 while the stock is recounted by hand
NextStock ==
  \/ TransactionRequests({AdminSession}, {"alice"}, 0..MaxQty)
  \/ ComponentRequests(Sessions)

SpecStock == Init /\ [][NextStock]_vars

\* sequences of Issue and Return requests only
NextFlow ==
  TransactionRequests({AdminSession, [role |-> "trainer", lab_id |-> 1]},
                      Recipients, QtyInputs)

SpecFlow == Init /\ [][NextFlow]_vars

\* the labs an admin names when a component is created
CatalogLabNameInputs == {LabName[3], LabName[4], "Nowhere"}

CreateComponentRequests(sessions, names, quantities) ==
  \E caller \in {<<AdminSession, lab>> : lab \in CatalogLabNameInputs} \cup
                {<<sess, LabName[sess.lab_id]>> : sess \in sessions \ {AdminSession}},
     name \in names, current_quantity \in quantities :
    /\ CreateComponent(caller[1], caller[2], name, SmallStock, current_quantity)
    /\ UNCHANGED served

GenerateUidCalls ==
  \E lab_id \in Labs : GenerateUid(lab_id) /\ UNCHANGED served

\* the catalog: components are created and recounted, UIDs are generated
NextCatalog ==
  \/ CreateComponentRequests({AdminSession, [role |-> "trainer", lab_id |-> 2]},
                             {"Servo"}, {0 - 1, SmallStock, SmallStock + 1})
  \/ ComponentRequests({AdminSession})
  \/ GenerateUidCalls

SpecCatalog == Init /\ [][NextCatalog]_vars

\* the position of the failing call among a handler's writes
FailingWrites == {1, 2}

FailingTransactionRequests(sessions, recipients, quantities) ==
  \E caller \in Callers(sessions), type \in {"issue", "return"},
     who \in recipients, q \in quantities, failing_write \in FailingWrites :
    /\ CreateTransactionFailing(caller[1], type, caller[2], "Pi", who, q,
                                failing_write)
    /\ UNCHANGED served

FailingEditRequests(sessions, fields, values) ==
  \E sess \in sessions, id \in TxIds, data \in Payloads(fields, values),
     failing_write \in FailingWrites :
    /\ UpdateTransactionFailing(sess, id, data, failing_write)
    /\ UNCHANGED served

FailingDeleteRequests(sessions) ==
  \E sess \in sessions, id \in TxIds, failing_write \in FailingWrites :
    /\ DeleteTransactionFailing(sess, id, failing_write)
    /\ UNCHANGED served

\* the four transaction operations on quantities >= 0, any of their
\* persistence writes raising
NextFail ==
  \/ TransactionRequests({AdminSession}, {"alice"}, 0..MaxQty)
  \/ EditRequests({AdminSession}, {"quantity_returned"}, 0..MaxQty)
  \/ DeleteRequests({AdminSession})
  \/ FailingTransactionRequests({AdminSession}, {"alice"}, 0..MaxQty)
  \/ FailingEditRequests({AdminSession}, {"quantity_returned"}, 0..MaxQty)
  \/ FailingDeleteRequests({AdminSession})

SpecFail == Init /\ [][NextFail]_vars

ComponentFieldRequests(sessions, fields, values) ==
  \E sess \in sessions, id \in {1, 2}, data \in Payloads(fields, values) :
    /\ UpdateComponent(sess, id, data)
    /\ UNCHANGED served

\* issues and returns of quantities >= 0 while an admin edits the baseline
\* of a component
NextBaseline ==
  \/ TransactionRequests({AdminSession}, {"alice"}, 0..MaxQty)
  \/ ComponentFieldRequests({AdminSession}, {"initial_quantity"}, 0..MaxQty)

SpecBaseline == Init /\ [][NextBaseline]_vars

\* a row of the imported file
ImportRowOf(name, lab, initial_quantity, current_quantity, group, uid) ==
  [name |-> name, category |-> "Sensors", lab |-> lab,
   initial_quantity |-> initial_quantity,
   current_quantity |-> current_quantity, group |-> group, uid |-> uid]

\* rows without a uid: two that update, one of them naming a group, and one
\* that inserts and names the same group in another spelling and another lab
AcceptedRowInputs ==
  { ImportRowOf("Pi", <<"r", "o", "b", "o", "t", "i", "c", "s", " ", "l", "a",
                        "b", " ", "a">>, SmallStock, 1, BlankChars, NoUid),
    ImportRowOf("Pi", LabNameChars[2], SmallStock, 0, <<"K", "I", "T">>, NoUid),
    ImportRowOf("Servo", LabNameChars[1], SmallStock, SmallStock,
                <<" ", "k", "i", "t">>, NoUid) }

\* a row that inserts, a row that updates, and one row for every way of
\* being refused
RefusedRowInputs ==
  { ImportRowOf("Servo", LabNameChars[1], SmallStock, 1, <<"K", "i", "t">>,
                "X-1"),
    ImportRowOf("Pi", LabNameChars[2], SmallStock, 1, BlankChars, NoUid),
    ImportRowOf("Motor", LabNameChars[1], SmallStock, 1, BlankChars,
                "COML1-001"),
    ImportRowOf(Blank, LabNameChars[1], SmallStock, 1, BlankChars, NoUid),
    ImportRowOf("Motor", LabNameChars[1], NoQty, 1, BlankChars, NoUid),
    ImportRowOf("Motor", LabNameChars[1], SmallStock, 0 - 1, BlankChars, NoUid),
    ImportRowOf("Motor", <<"N", "o", "w", "h", "e", "r", "e">>, SmallStock, 1,
                BlankChars, NoUid) }

\* the files of at most MaxRows rows
ImportBatches(row_inputs) ==
  UNION {[1..n -> row_inputs] : n \in 1..MaxRows}

ImportRequests(sessions, row_inputs) ==
  \E sess \in sessions, batch \in ImportBatches(row_inputs) :
    ImportComponents(sess, batch)

\* files of accepted rows imported by an admin
NextImport == ImportRequests({AdminSession}, AcceptedRowInputs)

SpecImport == Init /\ [][NextImport]_vars

\* files with refused rows imported by an admin and by the trainer of lab 1
NextRefusal ==
  ImportRequests({AdminSession, [role |-> "trainer", lab_id |-> 1]},
                 RefusedRowInputs)

SpecRefusal == Init /\ [][NextRefusal]_vars

\* the Issue and Return requests of trainers whose payload names any lab
TrainerTransactionRequests(sessions, labs, quantities) ==
  \E sess \in sessions, lab \in labs, type \in {"issue", "return"},
     q \in quantities :
    /\ CreateTransaction(sess, type, lab, "Pi", "alice", q)
    /\ UNCHANGED served

\* a row that recounts the component of lab 2
TrainerRowInputs ==
  { ImportRowOf("Pi", <<"i", "o", "t", " ", "p", "r", "o", "t", "o", "t", "y",
                        "p", "i", "n", "g", " ", "z", "o", "n", "e">>,
                SmallStock, SmallStock, BlankChars, NoUid) }

\* the trainers of two labs at work, each naming both labs and every
\* transaction
NextTrainer ==
  \/ TrainerTransactionRequests(TrainerSessions, {LabName[1], LabName[2]},
                                {1})
  \/ EditRequests(TrainerSessions, {"quantity_returned"}, {0, 1})
  \/ DeleteRequests(TrainerSessions)
  \/ ComponentFieldRequests(TrainerSessions, {"current_quantity"},
                            {SmallStock})
  \/ ImportRequests(TrainerSessions, TrainerRowInputs)

SpecTrainer == Init /\ [][NextTrainer]_vars

\* Issue requests of an admin on one component, served by the threads of the
\* server one statement at a time
NextRace ==
  \/ \E w \in Workers, who \in Recipients, q \in 1..MaxQty :
       IssueSelect(w, AdminSession, LabName[1], "Pi", who, q)
  \/ \E w \in Workers : IssueUpdate(w)
  \/ \E w \in Workers : IssueInsert(w)

SpecRace == Init /\ [][NextRace]_vars

\* ================================================================ claims
\* the rows a Return request matches, spelled out from the claim: same
\* component_name, lab_id and issued_to, pending_quantity > 0
ClaimOpen(req) ==
  {i \in DOMAIN txs :
     /\ txs[i].component_name = req.name
     /\ txs[i].lab_id = req.lab_id
     /\ txs[i].issued_to = req.who
     /\ txs[i].pending_quantity > 0}

ClaimOldest(req) ==
  {i \in ClaimOpen(req) :
     \A j \in ClaimOpen(req) : txs[i].issue_date <= txs[j].issue_date}

OtherRowsKept(i) ==
  /\ DOMAIN txs' = DOMAIN txs
  /\ \A j \in DOMAIN txs \ {i} : txs'[j] = txs[j]

OtherComponentsKept(c) ==
  /\ DOMAIN components' = DOMAIN components
  /\ \A d \in DOMAIN components \ {c} : components'[d] = components[d]

\* C1: every stored transaction has
\* quantity_returned + pending_quantity = quantity_issued, whatever payload
\* the four transaction operations accepted.
C1_PendingBalance ==
  \A i \in DOMAIN txs :
    txs[i].quantity_returned + txs[i].pending_quantity = txs[i].quantity_issued

\* C2: after any sequence of Issue, Return, Edit and Delete requests every
\* component has 0 <= current_quantity <= initial_quantity.
C2_StockWithinInitial ==
  \A c \in DOMAIN components :
    /\ 0 <= components[c].current_quantity
    /\ components[c].current_quantity <= components[c].initial_quantity

\* C3: a Return that fails with ExceedsInitialStock leaves the matched
\* transaction and the component as they were.
C3_RejectedReturnPersistsNothing ==
  [][(last'.op = "return" /\ last'.err = "ExceedsInitialStock")
       => UNCHANGED <<txs, components>>]_vars

\* C4: an Issue of more than the component's current_quantity fails with
\* InsufficientStock, creates no transaction and leaves the component alone.
C4_InsufficientStockRefused ==
  [][(/\ last'.op = "issue"
      /\ last'.comp # NoRow
      /\ last'.q > components[last'.comp].current_quantity)
       => (/\ last'.err = "InsufficientStock"
           /\ UNCHANGED <<txs, components>>)]_vars

C4_Witness ==
  /\ last.op = "issue"
  /\ last.err = "InsufficientStock"
  /\ last.q > components[last.comp].current_quantity
  /\ components[last.comp].current_quantity > 0

\* C5: a successful Issue of q takes exactly q from the component and adds
\* exactly one transaction (quantity_issued q, quantity_returned 0,
\* pending_quantity q, status issued); nothing else changes.
C5_IssueEffect ==
  [][(last'.op = "issue" /\ last'.err = "ok")
       => LET c == last'.comp
              i == last'.txn
              q == last'.q
          IN /\ components'[c].current_quantity =
                  components[c].current_quantity - q
             /\ components'[c].initial_quantity = components[c].initial_quantity
             /\ OtherComponentsKept(c)
             /\ i \notin DOMAIN txs
             /\ DOMAIN txs' = DOMAIN txs \cup {i}
             /\ \A j \in DOMAIN txs : txs'[j] = txs[j]
             /\ txs'[i].component_name = last'.name
             /\ txs'[i].lab_id = last'.lab_id
             /\ txs'[i].issued_to = last'.who
             /\ txs'[i].quantity_issued = q
             /\ txs'[i].quantity_returned = 0
             /\ txs'[i].pending_quantity = q
             /\ txs'[i].status = "issued"]_vars

C5_Witness ==
  /\ last.op = "issue"
  /\ last.err = "ok"
  /\ last.q = MaxQty
  /\ last.txn \in DOMAIN txs
  /\ txs[last.txn].pending_quantity = MaxQty
  /\ components[last.comp].current_quantity =
       components[last.comp].initial_quantity - MaxQty

\* C6: the stored status of every component is out_of_stock at quantity 0,
\* low_stock at 0 < quantity < 10 and available otherwise.
C6_StatusFollowsQuantity ==
  \A c \in DOMAIN components :
    components[c].status =
      IF components[c].current_quantity = 0 THEN "out_of_stock"
      ELSE IF components[c].current_quantity > 0 /\
              components[c].current_quantity < LowStockThreshold
      THEN "low_stock"
      ELSE "available"

\* C7: a Return acts on the matching open transaction with the earliest
\* issue_date and changes no other transaction.
C7_ReturnSettlesOldest ==
  [][(last'.op = "return" /\ last'.txn # NoRow)
       => /\ last'.txn \in ClaimOldest(last')
          /\ OtherRowsKept(last'.txn)]_vars

C7_Witness ==
  /\ last.op = "return"
  /\ last.err = "ok"
  /\ last.q > 0
  /\ \E j \in ClaimOpen(last) :
       /\ j # last.txn
       /\ txs[j].issue_date > txs[last.txn].issue_date

\* C8: a Return of more than the pending_quantity of the oldest matching open
\* transaction fails with OverReturn and changes nothing, even when the
\* recipient's other open transactions could cover it.
C8_OverReturnRefused ==
  [][(/\ last'.op = "return"
      /\ last'.comp # NoRow
      /\ ClaimOldest(last') # {}
      /\ \A i \in ClaimOldest(last') : last'.q > txs[i].pending_quantity)
       => (/\ last'.err = "OverReturn"
           /\ UNCHANGED <<txs, components>>)]_vars

C8_Witness ==
  /\ last.op = "return"
  /\ last.err = "OverReturn"
  /\ \E j \in ClaimOpen(last) :
       /\ j # last.txn
       /\ txs[j].pending_quantity + txs[last.txn].pending_quantity >= last.q

\* C9: a Return that matches no transaction with pending_quantity > 0 fails
\* with NoActiveIssue and changes no transaction and no component.
C9_NoActiveIssueRefused ==
  [][(/\ last'.op = "return"
      /\ last'.comp # NoRow
      /\ ClaimOpen(last') = {})
       => (/\ last'.err = "NoActiveIssue"
           /\ UNCHANGED <<txs, components>>)]_vars

C9_Witness ==
  /\ last.op = "return"
  /\ last.err = "NoActiveIssue"
  /\ \E j \in DOMAIN txs :
       /\ txs[j].component_name = last.name
       /\ txs[j].lab_id = last.lab_id
       /\ txs[j].issued_to # last.who
       /\ txs[j].pending_quantity >= last.q
       /\ last.q > 0

\* C10: a successful Return of r moves r from pending_quantity to
\* quantity_returned and into the component's current_quantity; the status
\* becomes returned, with return_date set, exactly when the new
\* pending_quantity is 0, and partially_returned (return_date untouched)
\* otherwise.
C10_ReturnEffect ==
  [][(last'.op = "return" /\ last'.err = "ok")
       => LET i == last'.txn
              c == last'.comp
              r == last'.q
          IN /\ txs'[i].pending_quantity = txs[i].pending_quantity - r
             /\ txs'[i].quantity_returned = txs[i].quantity_returned + r
             /\ txs'[i].quantity_issued = txs[i].quantity_issued
             /\ components'[c].current_quantity =
                  components[c].current_quantity + r
             /\ IF txs'[i].pending_quantity = 0
                THEN /\ txs'[i].status = "returned"
                     /\ txs'[i].return_date # NoDate
                ELSE /\ txs'[i].status = "partially_returned"
                     /\ txs'[i].return_date = txs[i].return_date]_vars

C10_Witness ==
  /\ last.op = "return"
  /\ last.err = "ok"
  /\ last.q = 1
  /\ txs[last.txn].quantity_returned = MaxQty
  /\ txs[last.txn].pending_quantity = 0
  /\ txs[last.txn].status = "returned"
  /\ txs[last.txn].return_date # NoDate

\* C11: an Issue of q (0 < q <= current_quantity) directly followed by a
\* Return of q by the same recipient, who has no other open transaction for
\* the component, restores current_quantity to its pre-issue value and
\* leaves the transaction returned, pending_quantity 0, return_date set.
C11_IssueReturnRoundTrip ==
  [][(/\ last.op = "issue"
      /\ last.err = "ok"
      /\ last.q > 0
      /\ last'.op = "return"
      /\ last'.comp = last.comp
      /\ last'.name = last.name
      /\ last'.lab_id = last.lab_id
      /\ last'.who = last.who
      /\ last'.q = last.q
      /\ ClaimOpen(last) = {last.txn})
       => (/\ components'[last.comp].current_quantity =
                components[last.comp].current_quantity + last.q
           /\ txs'[last.txn].status = "returned"
           /\ txs'[last.txn].pending_quantity = 0
           /\ txs'[last.txn].return_date # NoDate)]_vars

\* the order of the transaction statuses
StatusRank(status) ==
  CASE status = "issued" -> 0
    [] status = "partially_returned" -> 1
    [] status = "returned" -> 2

\* C12: under Issue and Return requests only, no transaction row disappears,
\* its status never moves backward along issued -> partially_returned ->
\* returned, its quantity_returned never decreases, and a returned
\* transaction is never changed again.
C12_ReturnOnlyMovesForward ==
  [][\A i \in DOMAIN txs :
       /\ i \in DOMAIN txs'
       /\ StatusRank(txs'[i].status) >= StatusRank(txs[i].status)
       /\ txs'[i].quantity_returned >= txs[i].quantity_returned
       /\ (txs[i].status = "returned" => txs'[i] = txs[i])]_vars

\* the component a transaction is linked to: same name, same lab_id
ClaimLinked(tx) ==
  {c \in DOMAIN components :
     /\ components[c].name = tx.component_name
     /\ components[c].lab_id = tx.lab_id}

EditRejections ==
  {"NegativeQuantity", "ExceedsIssued", "ExceedsInitialStock", "NegativeStock"}

\* C13: an Edit whose new quantity_returned is negative, exceeds
\* quantity_issued, or would move the linked component's current_quantity
\* above initial_quantity or below 0 is rejected, and a rejected Edit leaves
\* the transaction and the component exactly as they were.
C13_RejectedEditChangesNothing ==
  [][(last'.op = "edit" /\ last'.txn # NoRow /\ last'.q # NoQty)
       => LET tx == txs[last'.txn]
              new == last'.q
          IN /\ (\/ new < 0
                 \/ new > tx.quantity_issued
                 \/ /\ new # tx.quantity_returned
                    /\ \E c \in ClaimLinked(tx) :
                         LET moved == components[c].current_quantity +
                                      new - tx.quantity_returned
                         IN moved > components[c].initial_quantity \/ moved < 0)
                => last'.err \in EditRejections
             /\ last'.err \in EditRejections
                => UNCHANGED <<txs, components>>]_vars

C13_Witness ==
  /\ last.op = "edit"
  /\ last.err = "NegativeStock"
  /\ last.q >= 0
  /\ last.q < txs[last.txn].quantity_returned
  /\ components[last.comp].current_quantity + last.q
       - txs[last.txn].quantity_returned < 0

\* C14: a successful Edit that changes quantity_returned from old to new
\* changes the linked component's current_quantity by exactly new - old and
\* changes no other component.
C14_EditAppliesDelta ==
  [][(last'.op = "edit" /\ last'.err = "ok" /\ last'.q # NoQty)
       => LET tx == txs[last'.txn]
          IN \A c \in ClaimLinked(tx) :
               /\ components'[c].current_quantity =
                    components[c].current_quantity +
                    (last'.q - tx.quantity_returned)
               /\ components'[c].initial_quantity =
                    components[c].initial_quantity
               /\ OtherComponentsKept(c)]_vars

\* an Edit back to 0 of a transaction that was fully returned before
C14_Witness ==
  /\ last.op = "edit"
  /\ last.err = "ok"
  /\ last.q = 0
  /\ txs[last.txn].quantity_issued = MaxQty
  /\ txs[last.txn].quantity_returned = 0
  /\ txs[last.txn].return_date # NoDate
  /\ components[last.comp].current_quantity =
       components[last.comp].initial_quantity - MaxQty

\* C15: after a successful Edit to new_returned the transaction has
\* quantity_returned = new_returned, pending_quantity = quantity_issued -
\* new_returned and status issued if new_returned is 0, returned if it equals
\* quantity_issued, partially_returned otherwise.
C15_EditRecomputesRow ==
  [][(last'.op = "edit" /\ last'.err = "ok" /\ last'.q # NoQty)
       => LET after == txs'[last'.txn]
              new_returned == last'.q
          IN /\ after.quantity_returned = new_returned
             /\ after.pending_quantity = after.quantity_issued - new_returned
             /\ after.status =
                  IF new_returned = 0 THEN "issued"
                  ELSE IF new_returned = after.quantity_issued THEN "returned"
                  ELSE "partially_returned"]_vars

C15_Witness ==
  /\ last.op = "edit"
  /\ last.err = "ok"
  /\ last.q = 1
  /\ txs[last.txn].quantity_issued = MaxQty
  /\ txs[last.txn].quantity_returned = 1
  /\ txs[last.txn].pending_quantity = MaxQty - 1
  /\ txs[last.txn].status = "partially_returned"

\* C16: deleting a transaction with pending_quantity p > 0 removes the row
\* and increases the linked component's current_quantity by exactly p;
\* deleting one with pending_quantity 0 removes the row and leaves every
\* component unchanged. No other row is touched.
C16_DeleteRestoresPending ==
  [][(last'.op = "delete" /\ last'.err = "ok")
       => LET id == last'.txn
              p == txs[id].pending_quantity
          IN /\ id \in DOMAIN txs
             /\ DOMAIN txs' = DOMAIN txs \ {id}
             /\ \A j \in DOMAIN txs' : txs'[j] = txs[j]
             /\ p > 0 => \E c \in ClaimLinked(txs[id]) :
                           /\ components'[c].current_quantity =
                                components[c].current_quantity + p
                           /\ components'[c].initial_quantity =
                                components[c].initial_quantity
                           /\ OtherComponentsKept(c)
             /\ p = 0 => UNCHANGED components]_vars

\* a partially returned transaction was deleted: the row is gone and the
\* stock holds what was still pending
C16_Witness ==
  /\ last.op = "delete"
  /\ last.err = "ok"
  /\ last.q = 1
  /\ last.txn \notin DOMAIN txs
  /\ txs = <<>>
  /\ nextTxId = 2
  /\ components[last.comp].initial_quantity = LargeStock
  /\ components[last.comp].current_quantity = LargeStock

\* C17: a request in which a persistence write raises leaves neither the
\* component nor the transaction changed.
C17_FailedRequestChangesNothing ==
  [][last'.err = "PersistenceFailure"
       => UNCHANGED <<components, txs>>]_vars

\* C18: component create, component update and bulk import never store a
\* component with current_quantity < 0 or current_quantity > initial_quantity.
C18_ComponentWritesValidated ==
  [][last'.op \in {"create_component", "update_component", "import_components"}
       => \A c \in DOMAIN components' :
            (c \notin DOMAIN components \/ components'[c] # components[c])
              => /\ components'[c].current_quantity >= 0
                 /\ components'[c].current_quantity <=
                      components'[c].initial_quantity]_vars

\* the lab codes the display codes and names of the four labs stand for
ClaimLabCode == (1 :> "L1") @@ (2 :> "L2") @@ (3 :> "L3") @@ (4 :> "HU")

ClaimUid(lab_id, n) ==
  "COM" \o ClaimLabCode[lab_id] \o "-" \o
  (CASE n < 10 -> "00" \o ToString(n)
     [] n >= 10 /\ n < 100 -> "0" \o ToString(n)
     [] OTHER -> ToString(n))

\* the uids in use by the components of any lab
ClaimUsedUids == {components[c].uid : c \in DOMAIN components}

\* uid is COM<labcode>-NNN for the smallest NNN of 1..999 that is free
ClaimSmallestFree(lab_id, uid) ==
  \E n \in 1..SequenceLimit :
    /\ n <= Cardinality(ClaimUsedUids) + 1
    /\ uid = ClaimUid(lab_id, n)
    /\ uid \notin ClaimUsedUids
    /\ \A m \in 1..(n - 1) : ClaimUid(lab_id, m) \in ClaimUsedUids

\* C19: generate_component_uid for a resolvable lab returns COM<labcode>-NNN
\* with the smallest sequence number whose UID no component of any lab uses,
\* never a UID in use; a created component carries that UID, so the next call
\* returns the next free number.
C19_UidIsSmallestFree ==
  [][/\ last'.op = "generate_uid"
          => ClaimSmallestFree(last'.lab_id, last'.uid)
     /\ (last'.op = "create_component" /\ last'.err = "ok")
          => /\ last'.comp \notin DOMAIN components
             /\ ClaimSmallestFree(last'.lab_id, components'[last'.comp].uid)]_vars

\* lab LAB-003 got COML3-001, that was persisted, and the next call gave
\* COML3-002
C19_Witness ==
  /\ last.op = "create_component"
  /\ last.err = "ok"
  /\ last.lab_id = 3
  /\ components[last.comp].uid = "COML3-002"
  /\ \E c \in DOMAIN components :
       /\ c < last.comp
       /\ components[c].lab_id = 3
       /\ components[c].uid = "COML3-001"

ClaimImporter(r) ==
  IF r.lab_id = NoLab THEN AdminSession
  ELSE [role |-> "trainer", lab_id |-> r.lab_id]

\* the rows of an import the loop did not accept
ClaimRejectedRows(r) ==
  {i \in 1..Len(r.batch) : r.rows[i].outcome \in {"rejected", "exception"}}

\* the file without the rows the loop did not accept
RECURSIVE ClaimAcceptedRows(_, _)
ClaimAcceptedRows(r, i) ==
  IF i > Len(r.batch) THEN <<>>
  ELSE (IF i \in ClaimRejectedRows(r) THEN <<>> ELSE <<r.batch[i]>>)
       \o ClaimAcceptedRows(r, i + 1)

\* the tables as an import of the accepted rows alone leaves them
ClaimStoredBy(sess, batch) ==
  LET st == ImportRows([components |-> components,
                        groups |-> groups,
                        existing_components |->
                          [k \in 1..Cardinality(DOMAIN components) |->
                             components[k]],
                        existing_groups |->
                          [k \in 1..Cardinality(DOMAIN groups) |-> groups[k]],
                        imported_count |-> 0,
                        errors |-> <<>>,
                        rows |-> <<>>], sess, batch, 1)
  IN <<st.components, st.groups>>

\* C21: in a bulk import every row is processed independently: a row with a
\* blank required field, a non-numeric or negative quantity or an unknown lab
\* is rejected; every rejected row (one that raised included) adds exactly one
\* message naming its 1-based row number and changes no stored data, so the
\* tables end as the other rows alone leave them; imported_count is the
\* number of rows not rejected and total_rows the number of rows.
C21_RowsProcessedIndependently ==
  [][last'.op = "import" =>
       LET r == last' IN
       /\ r.total_rows = Len(r.batch)
       /\ Len(r.rows) = Len(r.batch)
       /\ \A i \in 1..Len(r.batch) :
            (\/ r.batch[i].name = Blank
             \/ r.batch[i].initial_quantity = NoQty
             \/ r.batch[i].initial_quantity < 0
             \/ r.batch[i].current_quantity < 0
             \/ r.batch[i].lab = <<"N", "o", "w", "h", "e", "r", "e">>)
              => i \in ClaimRejectedRows(r)
       /\ \A i \in ClaimRejectedRows(r) :
            Cardinality({k \in DOMAIN r.errors : r.errors[k].row = i}) = 1
       /\ r.imported_count = Len(r.batch) - Cardinality(ClaimRejectedRows(r))
       /\ <<components', groups'>> =
            ClaimStoredBy(ClaimImporter(r), ClaimAcceptedRows(r, 1))]_vars

\* the lab a row names, by its name whatever the case and the outer blanks
ClaimRowLab(row) ==
  LET named == normalize_string(row.lab) IN
  CHOOSE l \in Labs : NormalizedLabName[l] = named

\* the rows of an import that passed validation and name the component
\* (name, lab_id)
ClaimRowsNaming(r, row_lab, name, lab_id) ==
  {i \in 1..Len(r.batch) :
     /\ r.rows[i].outcome # "rejected"
     /\ r.batch[i].name = name
     /\ row_lab[i] = lab_id}

ClaimNamed(rows, name, lab_id) ==
  {c \in DOMAIN rows : rows[c].name = name /\ rows[c].lab_id = lab_id}

\* C22: in a bulk import a row that passes validation and whose (name, lab)
\* matches an existing component updates that component in place and is
\* counted, and one with no match inserts exactly one component: a
\* (name, lab) that exists keeps its number of components and ends with the
\* quantities of the last row naming it, one that does not exist gets
\* exactly one component, the first row naming it inserting and the later
\* ones updating.
C22_ImportUpdatesInPlace ==
  [][last'.op = "import" =>
       LET r == last'
           row_lab == [i \in 1..Len(r.batch) |->
                         IF r.rows[i].outcome = "rejected" THEN NoLab
                         ELSE ClaimRowLab(r.batch[i])]
       IN
       /\ r.imported_count =
            Cardinality({i \in 1..Len(r.batch) :
                           r.rows[i].outcome # "rejected"})
       /\ \A name \in {"Pi", "Servo", "Motor"}, lab_id \in Labs :
            LET naming == ClaimRowsNaming(r, row_lab, name, lab_id)
                before == ClaimNamed(components, name, lab_id)
                after == ClaimNamed(components', name, lab_id)
            IN
            /\ naming = {} => after = before
            /\ naming # {} =>
                 LET first == CHOOSE i \in naming : \A j \in naming : i <= j
                     final == CHOOSE i \in naming : \A j \in naming : j <= i
                 IN
                 /\ before # {} =>
                      /\ after = before
                      /\ \A i \in naming : r.rows[i].outcome = "updated"
                 /\ before = {} =>
                      /\ Cardinality(after) = 1
                      /\ r.rows[first].outcome = "inserted"
                      /\ \A i \in naming \ {first} :
                           r.rows[i].outcome = "updated"
                 /\ \A c \in after :
                      /\ components'[c].initial_quantity =
                           r.batch[final].initial_quantity
                      /\ components'[c].current_quantity =
                           r.batch[final].current_quantity]_vars

\* C23: within one import the UIDs generated for rows without a uid are
\* distinct from every UID stored when the row is written and, for rows
\* naming different components, pairwise distinct, whether the row inserts
\* or updates: no row is refused because the UID generated for it is taken.
C23_GeneratedUidsDistinct ==
  [][last'.op = "import" =>
       LET r == last' IN
       \A j \in 1..Len(r.batch) :
         r.rows[j].generated =>
           /\ r.rows[j].outcome # "exception"
           /\ \A i \in 1..(j - 1) :
                (/\ r.rows[i].generated
                 /\ <<r.batch[i].name, r.batch[i].lab>> #
                      <<r.batch[j].name, r.batch[j].lab>>)
                  => r.rows[i].uid # r.rows[j].uid]_vars

\* a group name as the claim compares it: without blanks, in lower case
ClaimGroupKey(chars) ==
  LET IsNotBlank(ch) == ch # " "
      kept == SelectSeq(chars, IsNotBlank)
  IN [k \in 1..Len(kept) |->
        IF \E u \in 1..26 : UpperChars[u] = kept[k]
        THEN LowerChars[CHOOSE u \in 1..26 : UpperChars[u] = kept[k]]
        ELSE kept[k]]

\* C24: within one import at most one group is created per (group name
\* whatever its case and outer blanks, lab): no two stored groups of one lab
\* have the same name up to case and blanks, two accepted rows naming the
\* same group for the same lab resolve to the same group, the later one
\* creating none, and rows naming it for different labs resolve to
\* different groups.
C24_OneGroupPerNameAndLab ==
  [][last'.op = "import" =>
       LET r == last'
           grouped == {i \in 1..Len(r.batch) : r.rows[i].group_id # NoRow}
           row_lab == [i \in 1..Len(r.batch) |->
                         IF i \in grouped THEN ClaimRowLab(r.batch[i])
                         ELSE NoLab]
       IN
       /\ \A g, h \in DOMAIN groups' :
            (/\ ClaimGroupKey(groups'[g].name) = ClaimGroupKey(groups'[h].name)
             /\ groups'[g].lab_id = groups'[h].lab_id) => g = h
       /\ \A i \in 1..Len(r.batch) :
            (/\ r.batch[i].group # BlankChars
             /\ r.rows[i].outcome \in {"updated", "inserted"}) => i \in grouped
       /\ \A i, j \in grouped :
            (/\ i < j
             /\ ClaimGroupKey(r.batch[i].group) = ClaimGroupKey(r.batch[j].group))
              => IF row_lab[i] = row_lab[j]
                 THEN /\ r.rows[j].group_id = r.rows[i].group_id
                      /\ ~r.rows[j].created
                 ELSE r.rows[j].group_id # r.rows[i].group_id]_vars

\* a file named one group twice for one lab, the first row creating it and
\* the second reusing it, while its namesake of another lab is stored
C24_Witness ==
  /\ last.op = "import"
  /\ \E i, j \in 1..Len(last.batch) :
       /\ i < j
       /\ last.rows[i].created
       /\ last.rows[j].group_id = last.rows[i].group_id
       /\ ~last.rows[j].created
  /\ \E g, h \in DOMAIN groups :
       groups[g].lab_id # groups[h].lab_id /\ groups[g].name = groups[h].name

\* C25: return_date is populated only on a fully returned transaction: a
\* row carrying a return_date has pending_quantity 0 and status returned, so
\* no issued or partially_returned row carries one.
C25_ReturnDateOnlyWhenReturned ==
  \A i \in DOMAIN txs :
    txs[i].return_date # NoDate
      => txs[i].pending_quantity = 0 /\ txs[i].status = "returned"

\* C26: quantity_issued is fixed when the transaction is created: no Return,
\* Edit or Delete request, whatever fields its payload carries, changes the
\* quantity_issued of a stored transaction.
C26_QuantityIssuedFixed ==
  [][\A i \in DOMAIN txs \cap DOMAIN txs' :
       txs'[i].quantity_issued = txs[i].quantity_issued]_vars

\* C27: initial_quantity is immutable: no Issue, Return, Edit, Delete,
\* component update or import row changes the initial_quantity of a stored
\* component.
C27_InitialQuantityImmutable ==
  [][\A c \in DOMAIN components \cap DOMAIN components' :
       components'[c].initial_quantity = components[c].initial_quantity]_vars

\* a step served for the trainer session sess
ClaimTrainerStep(sess) ==
  IF last'.op = "import"
  THEN last'.lab_id = sess.lab_id /\ ImportComponents(sess, last'.batch)
  ELSE
    \/ TrainerTransactionRequests({sess}, {LabName[1], LabName[2]}, {1})
    \/ EditRequests({sess}, {"quantity_returned"}, {0, 1})
    \/ DeleteRequests({sess})
    \/ ComponentFieldRequests({sess}, {"current_quantity"}, {SmallStock})

\* an Edit or a Delete of transaction id served for the session sess
ClaimEditOrDelete(sess, id) ==
  \/ \E data \in Payloads({"quantity_returned"}, {0, 1}) :
       UpdateTransaction(sess, id, data)
  \/ DeleteTransaction(sess, id)

\* C28: a request of a trainer never changes a component or a transaction
\* of another lab: whatever lab its payload names, every row of another lab
\* is left as it was and a row it creates is of the trainer's lab; an Edit
\* or a Delete of a transaction of another lab is denied and changes
\* nothing; a row of an imported file naming another lab is rejected.
C28_TrainerIsolation ==
  [][\A sess \in TrainerSessions :
       /\ ClaimTrainerStep(sess) =>
            /\ \A c \in DOMAIN components :
                 components[c].lab_id # sess.lab_id
                   => c \in DOMAIN components' /\ components'[c] = components[c]
            /\ \A i \in DOMAIN txs :
                 txs[i].lab_id # sess.lab_id
                   => i \in DOMAIN txs' /\ txs'[i] = txs[i]
            /\ \A i \in DOMAIN txs' \ DOMAIN txs :
                 txs'[i].lab_id = sess.lab_id
       /\ \A id \in DOMAIN txs :
            (txs[id].lab_id # sess.lab_id /\ ClaimEditOrDelete(sess, id))
              => /\ last'.err = "TransactionNotFound"
                 /\ UNCHANGED <<components, txs>>
       /\ (last'.op = "import" /\ last'.lab_id = sess.lab_id) =>
            \A i \in 1..Len(last'.batch) :
              ClaimRowLab(last'.batch[i]) # sess.lab_id
                => /\ last'.rows[i].outcome = "rejected"
                   /\ \E k \in DOMAIN last'.errors :
                        last'.errors[k] = ImportMessage(i, "ForeignLab")]_vars

\* a trainer was denied the Edit of a transaction of the other lab
C28_Witness ==
  /\ DOMAIN txs = TxIds
  /\ txs[1].lab_id # txs[2].lab_id
  /\ last.op = "edit"
  /\ last.err = "TransactionNotFound"

\* the pending quantities of the transactions of one (component_name, lab_id)
RECURSIVE ClaimPendingSum(_, _, _)
ClaimPendingSum(rows, name, lab_id) ==
  IF DOMAIN rows = {} THEN 0
  ELSE LET i == CHOOSE j \in DOMAIN rows : TRUE
           rest == [j \in DOMAIN rows \ {i} |-> rows[j]]
       IN (IF rows[i].component_name = name /\ rows[i].lab_id = lab_id
           THEN rows[i].pending_quantity ELSE 0)
          + ClaimPendingSum(rest, name, lab_id)

\* C29: stock is conserved: for every component, current_quantity plus the
\* pending quantities of the transactions on its (component_name, lab_id) is
\* the same after any Issue, Return, Edit or Delete request as before it,
\* whether the request succeeded or failed.
C29_StockConserved ==
  [][\A c \in DOMAIN components \cap DOMAIN components' :
       components'[c].current_quantity
         + ClaimPendingSum(txs', components[c].name, components[c].lab_id)
       = components[c].current_quantity
         + ClaimPendingSum(txs, components[c].name, components[c].lab_id)]_vars

\* C30: the read-modify-write of a request is not interleaved with that of
\* another: once the Issue requests being served have answered, the
\* quantities issued on a component do not exceed the stock it started with
\* and current_quantity is that stock minus the quantities issued.
C30_NoLostUpdate ==
  requests = <<>> =>
    \A c \in DOMAIN components :
      /\ components[c].current_quantity >= 0
      /\ components[c].current_quantity
           + ClaimPendingSum(txs, components[c].name, components[c].lab_id)
         = components[c].initial_quantity

====
